---- MODULE Spec2Model ----
(***************************************************************************)
(* capnp_import: the build script (build.rs) that acquires a capnp         *)
(* compiler and emits extract_bin.rs, and the macro crate (src/lib.rs)     *)
(* whose process_inner walks the project tree and emits module stanzas.    *)
(*                                                                         *)
(* Text is modelled as a sequence of one-character strings, so trimming,   *)
(* slash substitution, concatenation and path splitting are computed on    *)
(* the characters as the code computes them.                               *)
(***************************************************************************)
EXTENDS Integers, Sequences, FiniteSets, TLC

VARIABLES
    env,            \* the host facts of one build: OUT_DIR, feature, OS, PATH, probe, tools
    pc,             \* position of build.rs main
    directives,     \* cargo: lines printed to the host build system
    out_dir,        \* main: out_dir
    bin,            \* closure: bin (result of which::which("capnp"))
    version,        \* closure: result of get_version(&bin)
    existing_capnp, \* main: existing_capnp
    capnp_path,     \* main: capnp_path (Option<CapnprotoAcquired>)
    produced,       \* number of assignments of Some(..) to capnp_path
    builderCalls,   \* number of invocations of build_with_cmake
    cmakeConfig,    \* what build_with_cmake configured (generator, flags, defines)
    outDirFiles,    \* files written into OUT_DIR by this run: name -> content
    writes,         \* number of completed fs::write calls
    error,          \* the fatal error main ended with, if any
    mpc,            \* position of process_inner
    tree,           \* WalkDir::new("."): the entries in walk order
    path_patterns,  \* process_inner: path_patterns
    idx,            \* number of walk entries consumed
    helperfile,     \* process_inner: helperfile
    cmdFiles,       \* files handed to the CompilerCommand
    separator,      \* std::path::MAIN_SEPARATOR of the host the macro runs on
    result          \* what process_inner returned

buildVars == <<env, pc, directives, out_dir, bin, version, existing_capnp,
               capnp_path, produced, builderCalls, cmakeConfig, outDirFiles,
               writes, error>>
macroVars == <<mpc, tree, path_patterns, idx, helperfile, cmdFiles, separator, result>>
vars == <<buildVars, macroVars>>

----------------------------------------------------------------------------
(* Option and Result values *)

None == [tag |-> "None"]
Some(x) == [tag |-> "Some", val |-> x]
Ok(x) == [tag |-> "Ok", val |-> x]
Err(e) == [tag |-> "Err", err |-> e]

----------------------------------------------------------------------------
(* Text helpers *)

Whitespace == {" ", "\n", "\t", "\r"}

RECURSIVE TrimStart(_)
TrimStart(s) ==
    IF s # <<>> /\ Head(s) \in Whitespace THEN TrimStart(Tail(s)) ELSE s

RECURSIVE TrimEnd(_)
TrimEnd(s) ==
    IF s # <<>> /\ s[Len(s)] \in Whitespace
    THEN TrimEnd(SubSeq(s, 1, Len(s) - 1))
    ELSE s

\* str::trim
Trim(s) == TrimEnd(TrimStart(s))

\* str::replace('\\', "/")
ReplaceBackslash(s) == [i \in 1..Len(s) |-> IF s[i] = "\\" THEN "/" ELSE s[i]]

\* String::from_utf8 accepts the bytes iff none of them is the invalid byte
IsUtf8(bytes) == \A i \in 1..Len(bytes) : bytes[i] # "0xFF"

Contains(s, t) ==
    \E i \in 0..(Len(s) - Len(t)) : SubSeq(s, i + 1, i + Len(t)) = t

----------------------------------------------------------------------------
(* build.rs *)

CAPNP_VERSION == <<"0", ".", "1", "1", ".", "0">>

BannerPrefix ==
    <<"C", "a", "p", "'", "n", " ", "P", "r", "o", "t", "o", " ",
      "v", "e", "r", "s", "i", "o", "n", " ">>

\* format!("Cap'n Proto version {}", CAPNP_VERSION)
RequiredBanner == BannerPrefix \o CAPNP_VERSION

Locally(e) == [variant |-> "Locally", path |-> e]
OnSystem(e) == [variant |-> "OnSystem", path |-> e]

BinCapnp == <<"b", "i", "n", "/", "c", "a", "p", "n", "p">>
BinCapnpExe == BinCapnp \o <<".", "e", "x", "e">>

\* a Display that prints the install layout for a system location too
Display_InstallLayout(a) == IF a.variant = "OnSystem" THEN BinCapnp ELSE a.path

\* impl Display for CapnprotoAcquired: both variants print their path verbatim
Display(a) == a.path

SupportedOS == {"linux", "macos", "windows"}
HostOS == SupportedOS \cup {"freebsd"}

\* get_version: spawn error and invalid UTF-8 are errors; the exit status is not read
get_version(probe) ==
    IF ~probe.spawn THEN Err("ProbeIoError")
    ELSE IF ~IsUtf8(probe.stdout) THEN Err("ProbeDecodeError")
    ELSE Ok(probe.stdout)

\* the comparison without the trim
VersionMatches_NoTrim(v) == v = RequiredBanner

\* version.trim() == format!("Cap'n Proto version {}", CAPNP_VERSION)
VersionMatches(v) == Trim(v) = RequiredBanner

\* build_with_cmake after cmake returned dst: the assertion, then the per-OS path
build_with_cmake(od, dst, os) ==
    IF dst # od THEN Err("InstallPrefixMismatch")
    ELSE IF os = "windows" THEN Ok(Locally(BinCapnpExe))
    ELSE IF os \in {"linux", "macos"} THEN Ok(Locally(BinCapnp))
    ELSE Err("UnsupportedHostOs")

\* cmake::Config: Ninja when on PATH, /EHsc on windows, BUILD_TESTING=OFF
cmake_config(ninja, os) ==
    [generator |-> IF ninja THEN "Ninja" ELSE "default",
     cxxflags |-> IF os = "windows" THEN {"/EHsc"} ELSE {},
     defines |-> {<<"BUILD_TESTING", "OFF">>}]

\* the two format arguments of include_bytes!("{}/{}")
IncludePath(od, acquired) == ReplaceBackslash(od) \o <<"/">> \o Display(acquired)

EmittedFile == "extract_bin.rs"
EmittedItem == "commandhandle"

\* the text written by fs::write, reduced to what varies and what it declares
Artifact(od, acquired) ==
    [declares |-> {EmittedItem}, include_bytes |-> IncludePath(od, acquired)]

RerunDirective == "cargo:rerun-if-changed=capnproto"

(* Host facts the build can meet *)

UnixOutDirs == { <<"/", "o">>, <<"/", "t", "/", "o">> }
WindowsOutDirs == { <<"C", ":", "\\", "o">> }
OutDirsOf(os) == IF os = "windows" THEN WindowsOutDirs ELSE UnixOutDirs

UnixBins == { <<"/", "u", "/", "c", "a", "p", "n", "p">> }
WindowsBins == { <<"C", ":", "\\", "b", "\\", "c", "a", "p", "n", "p", ".", "e", "x", "e">> }
BinsOf(os) == IF os = "windows" THEN WindowsBins ELSE UnixBins

OtherBanner == BannerPrefix \o <<"0", ".", "1", "0", ".", "4">>

Stdouts ==
    { RequiredBanner \o <<"\n">>,
      RequiredBanner,
      <<" ">> \o RequiredBanner \o <<"\r", "\n">>,
      RequiredBanner \o <<"0">> \o <<"\n">>,
      <<"x">> \o RequiredBanner \o <<"\n">>,
      OtherBanner \o <<"\n">>,
      <<>>,
      RequiredBanner \o <<"0xFF">> }

Probes == [spawn : BOOLEAN, stdout : Stdouts, status : {0, 1}]

Envs ==
    { e \in [OUT_DIR : {None} \cup { Some(d) : d \in UnixOutDirs \cup WindowsOutDirs },
             deny_net_fetch : BOOLEAN,
             os : HostOS,
             which_capnp : {None} \cup { Some(b) : b \in UnixBins \cup WindowsBins },
             probe : Probes,
             ninja : BOOLEAN] :
        /\ e.OUT_DIR # None => e.OUT_DIR.val \in OutDirsOf(e.os)
        /\ e.which_capnp # None => e.which_capnp.val \in BinsOf(e.os)
        \* without a candidate there is nothing to probe
        /\ e.which_capnp = None =>
               e.probe = [spawn |-> FALSE, stdout |-> <<>>, status |-> 0]
        /\ ~e.probe.spawn => e.probe.stdout = <<>> /\ e.probe.status = 0 }

MacroIdle ==
    /\ mpc = "idle"
    /\ tree = <<>>
    /\ path_patterns = <<>>
    /\ idx = 0
    /\ helperfile = <<>>
    /\ cmdFiles = <<>>
    /\ separator = "/"
    /\ result = None

BuildInit ==
    /\ env \in Envs
    /\ pc = "start"
    /\ directives = <<>>
    /\ out_dir = None
    /\ bin = None
    /\ version = None
    /\ existing_capnp = None
    /\ capnp_path = None
    /\ produced = 0
    /\ builderCalls = 0
    /\ cmakeConfig = None
    /\ outDirFiles = <<>>
    /\ writes = 0
    /\ error = None

Init == BuildInit /\ MacroIdle

\* lines 35-43: the rerun directive, OUT_DIR, capnp_path = None
Start ==
    /\ pc = "start"
    /\ directives' = Append(directives, RerunDirective)
    /\ IF env.OUT_DIR = None
       THEN /\ pc' = "failed"
            /\ error' = Some([kind |-> "MissingOutDir", cause |-> None])
            /\ UNCHANGED out_dir
       ELSE /\ pc' = "which"
            /\ out_dir' = env.OUT_DIR
            /\ UNCHANGED error
    /\ UNCHANGED <<env, bin, version, existing_capnp, capnp_path, produced,
                   builderCalls, cmakeConfig, outDirFiles, writes>>
    /\ UNCHANGED macroVars

\* line 48: which::which("capnp")
Which ==
    /\ pc = "which"
    /\ IF env.which_capnp = None
       THEN /\ existing_capnp' = Err([kind |-> "DiscoveryNotFound", cause |-> None])
            /\ pc' = "decide"
            /\ UNCHANGED bin
       ELSE /\ bin' = env.which_capnp
            /\ pc' = "probe"
            /\ UNCHANGED existing_capnp
    /\ UNCHANGED <<env, directives, out_dir, version, capnp_path, produced,
                   builderCalls, cmakeConfig, outDirFiles, writes, error>>
    /\ UNCHANGED macroVars

\* lines 49-53: get_version(&bin) with its context
Probe ==
    /\ pc = "probe"
    /\ version' = get_version(env.probe)
    /\ IF version'.tag = "Err"
       THEN /\ existing_capnp' =
                   Err([kind |-> "DiscoveryUnreadable", cause |-> Some(version'.err)])
            /\ pc' = "decide"
       ELSE /\ pc' = "compare"
            /\ UNCHANGED existing_capnp
    /\ UNCHANGED <<env, directives, out_dir, bin, capnp_path, produced,
                   builderCalls, cmakeConfig, outDirFiles, writes, error>>
    /\ UNCHANGED macroVars

\* lines 55-63: the banner comparison
Compare ==
    /\ pc = "compare"
    /\ IF VersionMatches(version.val)
       THEN /\ capnp_path' = Some(OnSystem(bin.val))
            /\ produced' = produced + 1
            /\ existing_capnp' = Ok(bin.val)
            /\ UNCHANGED directives
       ELSE /\ directives' = Append(directives,
                   [warning |-> "System version of capnp found does not meet version requirement",
                    observed |-> version.val, required |-> CAPNP_VERSION])
            /\ existing_capnp' = Err([kind |-> "VersionMismatch", cause |-> None])
            /\ UNCHANGED <<capnp_path, produced>>
    /\ pc' = "decide"
    /\ UNCHANGED <<env, out_dir, bin, version, builderCalls, cmakeConfig,
                   outDirFiles, writes, error>>
    /\ UNCHANGED macroVars

\* the fallback taken whatever the deny-net-fetch feature says
AfterDiscovery_IgnoreDeny(existing, deny) ==
    IF existing.tag = "Err" THEN "build" ELSE "emit"

\* lines 67-72: what follows discovery
AfterDiscovery(existing, deny) ==
    IF existing.tag = "Err"
    THEN IF deny THEN "bail" ELSE "build"
    ELSE "emit"

Decide ==
    /\ pc = "decide"
    /\ LET to == AfterDiscovery(existing_capnp, env.deny_net_fetch) IN
       IF to = "bail"
       THEN /\ pc' = "failed"
            /\ error' = Some([kind |-> "DenyNetFetchAbort",
                              cause |-> Some(existing_capnp.err)])
       ELSE /\ pc' = to
            /\ UNCHANGED error
    /\ UNCHANGED <<env, directives, out_dir, bin, version, existing_capnp,
                   capnp_path, produced, builderCalls, cmakeConfig, outDirFiles,
                   writes>>
    /\ UNCHANGED macroVars

\* lines 77-79 and 129-159: the cmake build, which fails, or installs into some dst
Build ==
    /\ pc = "build"
    /\ builderCalls' = builderCalls + 1
    /\ cmakeConfig' = Some(cmake_config(env.ninja, env.os))
    /\ \E outcome \in {"fails", "installs_out_dir", "installs_elsewhere"} :
         IF outcome = "fails"
         THEN /\ pc' = "failed"
              /\ error' = Some([kind |-> "BuilderFailure", cause |-> None])
              /\ UNCHANGED <<capnp_path, produced>>
         ELSE LET dst == IF outcome = "installs_out_dir"
                         THEN out_dir.val
                         ELSE out_dir.val \o <<"/", "b", "u", "i", "l", "d">>
                  built == build_with_cmake(out_dir.val, dst, env.os)
              IN IF built.tag = "Err"
                 THEN /\ pc' = "failed"
                      /\ error' = Some([kind |-> built.err, cause |-> None])
                      /\ UNCHANGED <<capnp_path, produced>>
                 ELSE /\ capnp_path' = Some(built.val)
                      /\ produced' = produced + 1
                      /\ pc' = "emit"
                      /\ UNCHANGED error
    /\ UNCHANGED <<env, directives, out_dir, bin, version, existing_capnp,
                   outDirFiles, writes>>
    /\ UNCHANGED macroVars

\* fs::write whose error is dropped instead of propagated with ?
EmitStep_DropWriteError(write_ok) ==
    IF capnp_path = None
    THEN /\ pc' = "failed"
         /\ error' = Some([kind |-> "UnwrapNone", cause |-> None])
         /\ UNCHANGED <<outDirFiles, writes>>
    ELSE IF write_ok
    THEN /\ outDirFiles' = (EmittedFile :> Artifact(out_dir.val, capnp_path.val))
         /\ writes' = writes + 1
         /\ pc' = "done"
         /\ UNCHANGED error
    ELSE /\ pc' = "done"
         /\ UNCHANGED <<outDirFiles, writes, error>>

\* lines 82-120: fs::write of extract_bin.rs; capnp_path.unwrap() panics on None
EmitStep(write_ok) ==
    IF capnp_path = None
    THEN /\ pc' = "failed"
         /\ error' = Some([kind |-> "UnwrapNone", cause |-> None])
         /\ UNCHANGED <<outDirFiles, writes>>
    ELSE IF write_ok
    THEN /\ outDirFiles' = (EmittedFile :> Artifact(out_dir.val, capnp_path.val))
         /\ writes' = writes + 1
         /\ pc' = "done"
         /\ UNCHANGED error
    ELSE /\ pc' = "failed"
         /\ error' = Some([kind |-> "EmitterIoError", cause |-> None])
         /\ UNCHANGED <<outDirFiles, writes>>

Emit ==
    /\ pc = "emit"
    /\ \E write_ok \in BOOLEAN : EmitStep(write_ok)
    /\ UNCHANGED <<env, directives, out_dir, bin, version, existing_capnp,
                   capnp_path, produced, builderCalls, cmakeConfig>>
    /\ UNCHANGED macroVars

----------------------------------------------------------------------------
(* Properties of the build script *)

DiscoveryDone == pc \in {"decide", "build", "emit", "done", "failed"} /\ out_dir # None
Terminal == pc \in {"done", "failed"}
IsSystem == capnp_path # None /\ capnp_path.val.variant = "OnSystem"
IsLocal == capnp_path # None /\ capnp_path.val.variant = "Locally"
Emitted == outDirFiles[EmittedFile]

\* C1: with deny-net-fetch set, a failed discovery ends the run in a fatal error
\* that carries the discovery error; build_with_cmake is never invoked and no
\* location is ever acquired.
C1_DenyNetFetchIsFatal ==
    (env.deny_net_fetch /\ existing_capnp.tag = "Err") =>
        /\ builderCalls = 0
        /\ cmakeConfig = None
        /\ capnp_path = None
        /\ produced = 0
        /\ pc \in {"decide", "failed"}
        /\ pc = "failed" =>
               error = Some([kind |-> "DenyNetFetchAbort",
                             cause |-> Some(existing_capnp.err)])

C1_Witness ==
    /\ pc = "failed"
    /\ env.deny_net_fetch
    /\ existing_capnp.tag = "Err"
    /\ existing_capnp.err.kind = "VersionMismatch"
    /\ error.val.kind = "DenyNetFetchAbort"

\* C2: extract_bin.rs is written exactly once iff the run ends successfully; when
\* it is written exactly one location has been produced (unwrap never sees None);
\* every fatal outcome leaves no artifact written by the run.
C2_ArtifactIffSuccess ==
    /\ writes = (IF pc = "done" THEN 1 ELSE 0)
    /\ (pc = "done") <=> (EmittedFile \in DOMAIN outDirFiles)
    /\ pc \in {"emit", "done"} => produced = 1 /\ capnp_path # None
    /\ pc = "failed" =>
           /\ DOMAIN outDirFiles = {}
           /\ error.val.kind \in {"MissingOutDir", "DenyNetFetchAbort", "BuilderFailure",
                                  "InstallPrefixMismatch", "UnsupportedHostOs",
                                  "EmitterIoError"}

C2_Witness ==
    /\ pc = "done"
    /\ writes = 1
    /\ IsLocal
    /\ builderCalls = 1

\* the probe output is the required banner with whitespace only around it
IsBannerModuloWhitespace(s) ==
    \E i \in 0..Len(s), j \in 0..Len(s) :
        /\ i <= j
        /\ SubSeq(s, i + 1, j) = RequiredBanner
        /\ \A k \in 1..i : s[k] \in Whitespace
        /\ \A k \in (j + 1)..Len(s) : s[k] \in Whitespace

\* C3: discovery yields System(path) iff capnp was found on PATH, get_version
\* returned a string, and that string trimmed equals "Cap'n Proto version " +
\* CAPNP_VERSION; otherwise discovery fails and no System location is recorded.
C3_SystemIffBannerMatches ==
    DiscoveryDone =>
        /\ IsSystem <=>
               /\ env.which_capnp # None
               /\ env.probe.spawn
               /\ IsUtf8(env.probe.stdout)
               /\ IsBannerModuloWhitespace(env.probe.stdout)
        /\ IsSystem => capnp_path.val.path = env.which_capnp.val
        /\ IsSystem <=> existing_capnp.tag = "Ok"
        /\ ~IsSystem => existing_capnp.tag = "Err"

C3_Witness ==
    /\ DiscoveryDone
    /\ IsSystem
    /\ env.probe.stdout = <<" ">> \o RequiredBanner \o <<"\r", "\n">>

\* C4: when discovery succeeds the run goes straight to Acquired(System):
\* build_with_cmake is never invoked and the emitted artifact contains the
\* absolute system path.
C4_SystemSkipsBuilder ==
    existing_capnp.tag = "Ok" =>
        /\ builderCalls = 0
        /\ cmakeConfig = None
        /\ capnp_path = Some(OnSystem(env.which_capnp.val))
        /\ pc \in {"decide", "emit", "done", "failed"}
        /\ pc = "failed" => error.val.kind = "EmitterIoError"
        /\ pc = "done" => Contains(Emitted.include_bytes, env.which_capnp.val)

C4_Witness ==
    /\ pc = "done"
    /\ existing_capnp.tag = "Ok"
    /\ IsSystem

\* C5: get_version returns an error whenever the probed process exits non-zero,
\* so discovery never yields System for such a candidate.
C5_NonZeroExitIsError ==
    (/\ DiscoveryDone
     /\ env.which_capnp # None
     /\ env.probe.spawn
     /\ env.probe.status # 0) =>
        /\ version.tag = "Err"
        /\ ~IsSystem

\* C6: on a host other than linux, macOS or windows every run ends in a fatal
\* error and the cmake build is never invoked.
C6_UnsupportedHostNeverBuilds ==
    env.os \notin SupportedOS =>
        /\ builderCalls = 0
        /\ pc # "done"

\* C7: the include path baked into the artifact contains no backslash, for
\* either variant of the acquired location.
C7_IncludePathForwardSlashes ==
    pc = "done" =>
        \A i \in 1..Len(Emitted.include_bytes) : Emitted.include_bytes[i] # "\\"

\* the components a path names: maximal runs of characters between separators
RECURSIVE Components(_, _, _)
Components(s, seps, cur) ==
    IF s = <<>> THEN (IF cur = <<>> THEN <<>> ELSE <<cur>>)
    ELSE IF Head(s) \in seps
    THEN (IF cur = <<>> THEN <<>> ELSE <<cur>>) \o Components(Tail(s), seps, <<>>)
    ELSE Components(Tail(s), seps, Append(cur, Head(s)))

SeparatorsOf(os) == IF os = "windows" THEN {"/", "\\"} ELSE {"/"}
FileNamed(p) == Components(p, SeparatorsOf(env.os), <<>>)

\* C9: the include path denotes the file the acquired location names:
\* OUT_DIR/bin/capnp(.exe) for Locally, the discovered executable for OnSystem.
C9_IncludePathNamesAcquiredFile ==
    pc = "done" =>
        FileNamed(Emitted.include_bytes) =
            IF IsLocal
            THEN FileNamed(out_dir.val) \o FileNamed(capnp_path.val.path)
            ELSE FileNamed(capnp_path.val.path)

----------------------------------------------------------------------------
(* src/lib.rs *)

\* include!(concat!(env!("OUT_DIR"), "/binary_decision.rs"))
IncludedFile == "binary_decision.rs"
\* let cmdpath = CAPNP_BIN_PATH
ConsumedItem == "CAPNP_BIN_PATH"

\* C10: after a successful build every file the macro crate includes from OUT_DIR
\* exists there and declares the item the macro reads from it.
C10_ConsumerFindsEmittedArtifact ==
    pc = "done" =>
        /\ IncludedFile \in DOMAIN outDirFiles
        /\ ConsumedItem \in outDirFiles[IncludedFile].declares

(* A path is a sequence of components, a component a sequence of characters.  *)
(* The generated text is a sequence whose fixed literals are single elements  *)
(* and whose interpolated names are their characters.                         *)

CurDir == <<".">>
ParentDir == <<".", ".">>

Header == "// This file is autogenerated by capnp-fetch\n"

\* normalize_path: keep the Component::Normal components
normalize_path(path) == SelectSeq(path, LAMBDA c : c \notin {CurDir, ParentDir})

\* position of the last '.' of a file name, 0 when there is none
LastDot(name) ==
    IF \E i \in 1..Len(name) : name[i] = "."
    THEN CHOOSE i \in 1..Len(name) :
             name[i] = "." /\ \A j \in (i + 1)..Len(name) : name[j] # "."
    ELSE 0

\* Path::file_stem: the name up to its last dot; the whole name when the only dot leads
file_stem(path) ==
    IF path = <<>> \/ path[Len(path)] = ParentDir THEN None
    ELSE LET name == path[Len(path)] IN
         IF LastDot(name) <= 1 THEN Some(name)
         ELSE Some(SubSeq(name, 1, LastDot(name) - 1))

\* Path::extension: what follows the last dot, None without a dot or for a leading dot
extension(path) ==
    IF path = <<>> \/ path[Len(path)] = ParentDir THEN None
    ELSE LET name == path[Len(path)] IN
         IF LastDot(name) <= 1 THEN None
         ELSE Some(SubSeq(name, LastDot(name) + 1, Len(name)))

\* Path::with_file_name
with_file_name(path, name) == SubSeq(path, 1, Len(path) - 1) \o <<name>>

\* Path::to_string_lossy: the components joined by the host's separator
RECURSIVE to_string_lossy(_, _)
to_string_lossy(path, sep) ==
    IF path = <<>> THEN <<>>
    ELSE IF Len(path) = 1 THEN path[1]
    ELSE path[1] \o <<sep>> \o to_string_lossy(Tail(path), sep)

\* format!("{}_{}", file_stem, file_extension)
module_name(stem, ext) == stem \o <<"_">> \o ext

\* append_path: the stanza for one file; unwrap() of a missing stem or extension panics
append_path(file_path, sep) ==
    IF file_stem(file_path) = None \/ extension(file_path) = None
    THEN Err("panic")
    ELSE LET mod == module_name(file_stem(file_path).val, extension(file_path).val)
             rust_module_path == with_file_name(file_path, mod \o <<".", "r", "s">>)
         IN Ok(<<"\n", "\nmod ">> \o mod
               \o <<" {\ninclude!(concat!(env!(\"OUT_DIR\"), \"/">>
               \o ReplaceBackslash(to_string_lossy(rust_module_path, sep))
               \o <<"\"));\n}">>)

(* Glob patterns: a sequence of component patterns: a literal name, * (any    *)
(* name), *.ext, ** (any number of directories), or text Glob::new rejects.   *)

Lit(s) == [k |-> "lit", s |-> s]
AnyName == [k |-> "any", s |-> <<>>]
AnyExt(x) == [k |-> "ext", s |-> x]
Tree == [k |-> "tree", s |-> <<>>]
Invalid == [k |-> "invalid", s |-> <<>>]

ComponentMatch(cp, name) ==
    CASE cp.k = "lit" -> name = cp.s
      [] cp.k = "any" -> TRUE
      [] cp.k = "ext" -> /\ Len(name) > Len(cp.s)
                         /\ SubSeq(name, Len(name) - Len(cp.s), Len(name)) = <<".">> \o cp.s
      [] OTHER -> FALSE

RECURSIVE GlobMatch(_, _)
GlobMatch(pat, path) ==
    IF pat = <<>> THEN path = <<>>
    ELSE IF Head(pat).k = "tree"
    THEN GlobMatch(Tail(pat), path) \/ (path # <<>> /\ GlobMatch(pat, Tail(path)))
    ELSE /\ path # <<>>
         /\ ComponentMatch(Head(pat), Head(path))
         /\ GlobMatch(Tail(pat), Tail(path))

\* Glob::new fails on a malformed pattern
GlobBuilds(pat) == \A i \in 1..Len(pat) : pat[i].k # "invalid"

\* a combinator that asks only the first glob
combined_globs_First(patterns, path) ==
    patterns # <<>> /\ GlobMatch(patterns[1], path)

\* wax::any(globs).is_match(path)
combined_globs(patterns, path) ==
    \E i \in 1..Len(patterns) : GlobMatch(patterns[i], path)

(* The project trees and pattern lists the macro is run on *)

MaxFiles == 3

Ne == <<"e">>
Nec == <<"e", ".", "c">>
Nex == <<"e", ".", "x">>
Ndotc == <<".", "c">>
Nabc == <<"a", ".", "b", ".", "c">>
Nt == <<"t">>
Nf == <<"f">>
Nc == <<"c">>
Nx == <<"x">>

File(p) == [path |-> p, kind |-> "file"]
Dir(p) == [path |-> p, kind |-> "dir"]
\* an entry WalkDir could not read
Unreadable(p) == [path |-> p, kind |-> "error"]

\* every entry a tree may hold, in walk order (directories before their contents)
Slots ==
    << Dir(<<CurDir>>),
       File(<<CurDir, Nec>>),
       File(<<CurDir, Ne>>),
       Dir(<<CurDir, Nt>>),
       File(<<CurDir, Nt, Nec>>),
       File(<<CurDir, Nt, Ndotc>>),
       File(<<CurDir, Nt, Nabc>>),
       Dir(<<CurDir, Nt, Nf>>),
       File(<<CurDir, Nt, Nf, Nec>>),
       File(<<CurDir, Nt, Nf, Nex>>),
       Unreadable(<<CurDir, Nt, Nf, Nt>>) >>

IsPrefix(p, q) == Len(p) <= Len(q) /\ SubSeq(q, 1, Len(p)) = p

\* a tree holds the root, and with every entry the directories above it
IsTree(S) ==
    /\ 1 \in S
    /\ \A i \in S : \A j \in 1..Len(Slots) :
           (Slots[j].kind = "dir" /\ j # i /\ IsPrefix(Slots[j].path, Slots[i].path))
               => j \in S
    /\ Cardinality({i \in S : Slots[i].kind = "file"}) <= MaxFiles

RECURSIVE Pick(_, _)
Pick(S, i) ==
    IF i > Len(Slots) THEN <<>>
    ELSE (IF i \in S THEN <<Slots[i]>> ELSE <<>>) \o Pick(S, i + 1)

Trees == { Pick(S, 1) : S \in { T \in SUBSET (1..Len(Slots)) : IsTree(T) } }

PatternLists ==
    { << <<Lit(Nt), Lit(Nec)>> >>,
      << <<Lit(Nt), Tree, AnyExt(Nc)>> >>,
      << <<Tree, AnyName>> >>,
      << <<AnyExt(Nc)>>, <<Lit(Nt), Lit(Nf), AnyExt(Nx)>> >>,
      << <<Tree, AnyExt(Nc)>>, <<Lit(Nt), AnyName>> >>,
      << <<Lit(Nt), Lit(Nec)>>, <<Invalid>> >>,
      <<>> }

BuildIdle ==
    /\ env = None
    /\ pc = "idle"
    /\ directives = <<>>
    /\ out_dir = None
    /\ bin = None
    /\ version = None
    /\ existing_capnp = None
    /\ capnp_path = None
    /\ produced = 0
    /\ builderCalls = 0
    /\ cmakeConfig = None
    /\ outDirFiles = <<>>
    /\ writes = 0
    /\ error = None

MacroInit ==
    /\ mpc = "start"
    /\ tree \in Trees
    /\ path_patterns \in PatternLists
    /\ separator \in {"/", "\\"}
    /\ idx = 0
    /\ helperfile = <<>>
    /\ cmdFiles = <<>>
    /\ result = None

InitMacro == BuildIdle /\ MacroInit

\* lines 38-42: the header and the compiler command
Begin ==
    /\ mpc = "start"
    /\ helperfile' = <<Header>>
    /\ cmdFiles' = <<>>
    /\ mpc' = "globs"
    /\ UNCHANGED <<tree, path_patterns, idx, separator, result>>
    /\ UNCHANGED buildVars

\* lines 48-56: the globs are built; a malformed one ends process_inner with its error
CompileGlobs ==
    /\ mpc = "globs"
    /\ IF \A i \in 1..Len(path_patterns) : GlobBuilds(path_patterns[i])
       THEN mpc' = "walk" /\ UNCHANGED result
       ELSE mpc' = "done" /\ result' = Err("BuildError")
    /\ UNCHANGED <<tree, path_patterns, idx, helperfile, cmdFiles, separator>>
    /\ UNCHANGED buildVars

\* lines 58-66: one entry of the walk
WalkEntry ==
    /\ mpc = "walk"
    /\ idx < Len(tree)
    /\ idx' = idx + 1
    /\ LET entry == tree[idx + 1]
           path == normalize_path(entry.path)
       IN IF entry.kind = "error"
          THEN /\ mpc' = "done"
               /\ result' = Err("walkdir")
               /\ UNCHANGED <<helperfile, cmdFiles>>
          ELSE IF entry.kind = "file" /\ combined_globs(path_patterns, path)
          THEN LET section == append_path(path, separator) IN
               IF section.tag = "Err"
               THEN /\ mpc' = "panicked"
                    /\ cmdFiles' = Append(cmdFiles, path)
                    /\ UNCHANGED <<helperfile, result>>
               ELSE /\ helperfile' = helperfile \o section.val
                    /\ cmdFiles' = Append(cmdFiles, path)
                    /\ UNCHANGED <<mpc, result>>
          ELSE UNCHANGED <<mpc, helperfile, cmdFiles, result>>
    /\ UNCHANGED <<tree, path_patterns, separator>>
    /\ UNCHANGED buildVars

\* lines 68-72: cmd.run(), then the helper file is returned
RunCompiler ==
    /\ mpc = "walk"
    /\ idx = Len(tree)
    /\ mpc' = "done"
    /\ \E ran \in BOOLEAN :
         result' = IF ran THEN Ok(helperfile) ELSE Err("capnpc")
    /\ UNCHANGED <<tree, path_patterns, idx, helperfile, cmdFiles, separator>>
    /\ UNCHANGED buildVars

NextMacro == Begin \/ CompileGlobs \/ WalkEntry \/ RunCompiler

SpecMacro == InitMacro /\ [][NextMacro]_vars

----------------------------------------------------------------------------
(* Properties of process_inner *)

\* the components joined by forward slashes, each followed by one
RECURSIVE SlashJoined(_)
SlashJoined(dirs) ==
    IF dirs = <<>> THEN <<>> ELSE Head(dirs) \o <<"/">> \o SlashJoined(Tail(dirs))

\* the ways to read a file name as <stem>.<ext>, ext holding no dot
StemExtSplits(name) ==
    { sp \in { <<SubSeq(name, 1, i - 1), SubSeq(name, i + 1, Len(name))>> :
                   i \in 1..Len(name) } :
        /\ name = sp[1] \o <<".">> \o sp[2]
        /\ \A k \in 1..Len(sp[2]) : sp[2][k] # "." }

\* the stanza of the file <dir>/<stem>.<ext>: module <stem>_<ext>, included from
\* OUT_DIR + "/<dir>/<stem>_<ext>.rs"
StanzaOf(rel) ==
    LET name == rel[Len(rel)]
        dir == SubSeq(rel, 1, Len(rel) - 1)
    IN IF StemExtSplits(name) = {} THEN <<"no stanza">>
       ELSE LET sp == CHOOSE x \in StemExtSplits(name) : TRUE
                mod == sp[1] \o <<"_">> \o sp[2]
            IN <<"\n", "\nmod ">> \o mod
               \o <<" {\ninclude!(concat!(env!(\"OUT_DIR\"), \"/">>
               \o SlashJoined(dir) \o mod \o <<".", "r", "s">>
               \o <<"\"));\n}">>

\* a regular file whose path below the current directory matches some pattern
Selected(entry) ==
    /\ entry.kind = "file"
    /\ \E i \in 1..Len(path_patterns) : GlobMatch(path_patterns[i], Tail(entry.path))

\* the header, then the stanzas of the selected files among the first n entries
RECURSIVE ExpectedUpTo(_)
ExpectedUpTo(n) ==
    IF n = 0 THEN <<Header>>
    ELSE ExpectedUpTo(n - 1)
         \o (IF Selected(tree[n]) THEN StanzaOf(Tail(tree[n].path)) ELSE <<>>)

Next == Start \/ Which \/ Probe \/ Compare \/ Decide \/ Build \/ Emit

Spec == Init /\ [][Next]_vars

====
